---- MODULE Spec2Model ----
(***************************************************************************)
(* Model of src/App.jsx: the risk engine runXaiInference and the App       *)
(* component that calls it (auth, profile, history subscription, chat).    *)
(*                                                                         *)
(* Numbers.  The engine works on JavaScript doubles.  Every slider of the  *)
(* dashboard except temperature has step 1, so the vitals the engine reads *)
(* are integers and every phi is a whole number of thousandths.  The model *)
(* keeps phi, logOdds and baseValue in thousandths (0.009 is 9, 0.18 is    *)
(* 180), temperature in tenths of a degree, and the probability in units   *)
(* of 1/Scale.                                                             *)
(***************************************************************************)
EXTENDS Integers, Sequences, FiniteSets, TLC

\* ---------------------------------------------------------------------
\* Bounds of the engine's input domain (windows around the thresholds)
\* ---------------------------------------------------------------------
HrSpan == 5
BpSpan == 3
O2Span == 5
InfSpan == 2

HeartRates == 99..(100 + HrSpan)
BloodPressures == (90 - BpSpan)..91
Oxygens == (94 - O2Span)..95
InfectionMarkers == 2..(3 + InfSpan)
Temperatures == {370, 385}
Modes == {"simulated", "Production"}

VitalsDomain ==
  [heartRate : HeartRates, bloodPressure : BloodPressures, oxygen : Oxygens,
   temperature : Temperatures, infectionMarker : InfectionMarkers]

SymptomsDomain == [pain : BOOLEAN, breathless : BOOLEAN]

\* ---------------------------------------------------------------------
\* Helpers standing for JavaScript built-ins
\* ---------------------------------------------------------------------
Abs(x) == IF x < 0 THEN -x ELSE x

Front(s) == SubSeq(s, 1, Len(s) - 1)

RECURSIVE SumSeq(_)
SumSeq(s) == IF s = <<>> THEN 0 ELSE s[1] + SumSeq(Tail(s))

\* Array.prototype.sort with comparator (a, b) => key(b) - key(a): the
\* sort is stable (ECMAScript 2019; insertion sort for short arrays before
\* that).  s is the array, k the key of each element; one insertion step
\* moves x left past every element the comparator puts strictly after it.
RECURSIVE InsertDesc(_, _)
InsertDesc(t, x) ==
  IF t = <<>> THEN <<x>>
  ELSE IF x.key - t[Len(t)].key > 0
       THEN Append(InsertDesc(Front(t), x), t[Len(t)])
       ELSE Append(t, x)

RECURSIVE SortKeyedDesc(_)
SortKeyedDesc(s) ==
  IF s = <<>> THEN <<>>
  ELSE InsertDesc(SortKeyedDesc(Front(s)), s[Len(s)])

\* A sort that compares the same keys but lets a later equal element pass
\* an earlier one (an unstable sort).
RECURSIVE InsertDescUnstable(_, _)
InsertDescUnstable(t, x) ==
  IF t = <<>> THEN <<x>>
  ELSE IF x.key - t[Len(t)].key >= 0
       THEN Append(InsertDescUnstable(Front(t), x), t[Len(t)])
       ELSE Append(t, x)

RECURSIVE SortKeyedDescUnstable(_)
SortKeyedDescUnstable(s) ==
  IF s = <<>> THEN <<>>
  ELSE InsertDescUnstable(SortKeyedDescUnstable(Front(s)), s[Len(s)])

\* ---------------------------------------------------------------------
\* Math.exp and the logistic sigmoid, in fixed point
\* ---------------------------------------------------------------------
Scale == 10000
ExpNeg1000 == 3679
ExpNeg100 == 9048
ExpNeg10 == 9900
ExpNeg1 == 9990

MulFix(a, b) == (a * b + Scale \div 2) \div Scale

RECURSIVE PowFix(_, _)
PowFix(b, n) == IF n = 0 THEN Scale ELSE MulFix(b, PowFix(b, n - 1))

\* exp(-x / 1000) in units of 1/Scale, for x >= 0 in thousandths
ExpNeg(x) ==
  MulFix(MulFix(PowFix(ExpNeg1000, x \div 1000),
                PowFix(ExpNeg100, (x % 1000) \div 100)),
         MulFix(PowFix(ExpNeg10, (x % 100) \div 10),
                PowFix(ExpNeg1, x % 10)))

\* 1 / (1 + Math.exp(-x)) in units of 1/Scale
Sigmoid(x) ==
  IF x >= 0 THEN (Scale * Scale) \div (Scale + ExpNeg(x))
  ELSE Scale - (Scale * Scale) \div (Scale + ExpNeg(-x))

\* ---------------------------------------------------------------------
\* runXaiInference
\* ---------------------------------------------------------------------
baseValue == 180

shapColor(phi) == IF phi > 0 THEN "text-red-500" ELSE "text-emerald-500"

shapTerm(feature, phi) ==
  [feature |-> feature, phi |-> phi, color |-> shapColor(phi)]

hrWeightAtThreshold(vitals) ==
  IF vitals.heartRate >= 100 THEN (vitals.heartRate - 100) * 9 ELSE -40

hrWeight(vitals) ==
  IF vitals.heartRate > 100 THEN (vitals.heartRate - 100) * 9 ELSE -40

bpWeight(vitals) ==
  IF vitals.bloodPressure < 90 THEN (90 - vitals.bloodPressure) * 15 ELSE -20

o2Weight(vitals) ==
  IF vitals.oxygen < 94 THEN (94 - vitals.oxygen) * 50 ELSE -90

infWeightFlat(vitals) ==
  IF vitals.infectionMarker > 3 THEN (vitals.infectionMarker - 3) * 80 ELSE -20

infWeight(vitals) ==
  IF vitals.infectionMarker > 3 THEN (vitals.infectionMarker - 3) * 80 ELSE -30

painTermsSilent(symptoms) == <<>>

\* line 83: the push of the Pain Index term
painTerms(symptoms) ==
  IF symptoms.pain THEN <<shapTerm("Pain Index", 140)>> ELSE <<>>

breathlessTermsAlways(symptoms) == <<shapTerm("Resp. Distress", 250)>>

\* line 84: the push of the Resp. Distress term
breathlessTerms(symptoms) ==
  IF symptoms.breathless THEN <<shapTerm("Resp. Distress", 250)>> ELSE <<>>

\* shapValues as pushed, before the sort
shapPushed(vitals, symptoms) ==
  <<shapTerm("Heart Rate", hrWeight(vitals)),
    shapTerm("Blood Pressure", bpWeight(vitals)),
    shapTerm("SpO2 Saturation", o2Weight(vitals)),
    shapTerm("Infection Marker", infWeight(vitals))>>
  \o painTerms(symptoms) \o breathlessTerms(symptoms)

\* logOdds after the last "logOdds +=" (lines 58-84)
logOdds(vitals, symptoms) ==
  0 + hrWeight(vitals) + bpWeight(vitals) + o2Weight(vitals) + infWeight(vitals)
    + (IF symptoms.pain THEN 140 ELSE 0)
    + (IF symptoms.breathless THEN 250 ELSE 0)

limeSensitivityHrScaled(vitals) ==
  IF vitals.heartRate > 100 THEN 9 ELSE IF vitals.bloodPressure < 90 THEN 9 ELSE 2

limeSensitivity(vitals) == IF vitals.heartRate > 100 THEN 9 ELSE 2

Keyed(s) == [i \in 1..Len(s) |-> [key |-> Abs(s[i].phi), item |-> s[i]]]

Unkeyed(s) == [i \in 1..Len(s) |-> s[i].item]

shapSortUnstable(s) == Unkeyed(SortKeyedDescUnstable(Keyed(s)))

\* line 95: shapValues.sort((a, b) => Math.abs(b.phi) - Math.abs(a.phi))
shapSort(s) == Unkeyed(SortKeyedDesc(Keyed(s)))

runXaiInferenceModeDependent(vitals, symptoms, mode) ==
  [probability |-> Sigmoid(logOdds(vitals, symptoms) + baseValue),
   baseValue |-> IF mode = "simulated" THEN baseValue ELSE 0,
   shapValues |-> shapSort(shapPushed(vitals, symptoms)),
   limeSensitivity |-> limeSensitivity(vitals)]

runXaiInference(vitals, symptoms, mode) ==
  [probability |-> Sigmoid(logOdds(vitals, symptoms) + baseValue),
   baseValue |-> baseValue,
   shapValues |-> shapSort(shapPushed(vitals, symptoms)),
   limeSensitivity |-> limeSensitivity(vitals)]

\* ---------------------------------------------------------------------
\* State
\* ---------------------------------------------------------------------
VARIABLES
  user,          \* useState(null), line 175: NoUser or a uid
  profile,       \* useState(null), line 176
  loading,       \* useState(true), line 177
  vitals,        \* line 181
  symptoms,      \* line 182
  history,       \* line 183
  chat,          \* line 184
  isTyping,      \* line 185
  xai,           \* the value held by useMemo, line 188
  obStep,        \* OnboardingFlow's step, line 132
  obData,        \* OnboardingFlow's data, line 133
  authReady,     \* the auth listener has delivered its first state
  profileDocs,   \* document store: users/<uid>/profile/data
  historyDocs,   \* document store: the public history collection
  clock,         \* the store's server time, in seconds
  subscription,  \* uid captured by the live onSnapshot listener, or NoUser
  pendingFetch,  \* fetchProfile calls awaiting getDoc (captured uid)
  pendingFinish, \* finish() calls awaiting setDoc (captured uid and data)
  pendingSaves,  \* saveAssessment calls awaiting addDoc (the document's id)
  inflight,      \* handleChat calls awaiting fetch / response.json()
  fetchCount,    \* number of fetch() calls made so far
  chatErrors,    \* number of handleChat promises that rejected
  engineCalls,   \* the contexts in which runXaiInference has been invoked
  lastOp,        \* which handler ran last
  call,          \* engine harness: arguments of the latest invocation
  result,        \* engine harness: its return value
  prev           \* engine harness: the invocation before it

appVars ==
  <<user, profile, loading, vitals, symptoms, history, chat, isTyping, xai,
    obStep, obData, authReady, profileDocs, historyDocs, clock, subscription,
    pendingFetch, pendingFinish, pendingSaves, inflight, fetchCount,
    chatErrors, engineCalls, lastOp>>

engVars == <<call, result, prev>>

vars == <<appVars, engVars>>

\* ---------------------------------------------------------------------
\* Bounds and small input sets of the application model
\* ---------------------------------------------------------------------
MaxDocs == 2
MaxChats == 2

Users == {"u1", "u2"}
NoUser == "null"
NoProfile == [age |-> 0, height |-> 0, weight |-> 0, setupComplete |-> "null"]
NoTimestamp == -1

InitialVitals ==
  [heartRate |-> 80, bloodPressure |-> 120, oxygen |-> 98,
   temperature |-> 370, infectionMarker |-> 1]

InitialSymptoms == [pain |-> FALSE, breathless |-> FALSE]

InitialChat ==
  <<[role |-> "ai",
     text |-> "Sentinel active. Connecting to XGBoost Inference Server..."]>>

InitialData == [age |-> 45, height |-> 170, weight |-> 70]

\* values the sliders of the dashboard are moved to
SliderValues ==
  [heartRate |-> {80, 100 + HrSpan}, bloodPressure |-> {120},
   oxygen |-> {98}, temperature |-> {370}, infectionMarker |-> {1}]

\* values typed into the onboarding form, per step
OnboardingValues == <<{45, 50}, {170}, {70}>>

OnboardingKeys == <<"age", "height", "weight">>

\* chat inputs, as sequences of characters
ChatInputs ==
  { <<" ", " ">>,
    <<"P", "a", "i", "n", " ", "b", "r", "e", "a", "t", "h", " ">>,
    <<"o", "k">> }

\* texts the text-generation service answers with ("" : no candidate text)
ReplyTexts == {"", "reply"}

\* fixed chat texts (lines 251, 249, 218), as one-element character
\* sequences; the audit text is written without its leading check mark
FallbackText == <<"Observation logged. XGBoost risk updated.">>
DefaultReplyText == <<"Risk profile recalculated.">>
AuditText == <<"Audit log synchronized. Model ID: XGB_MIMIC_v1.0">>

\* ---------------------------------------------------------------------
\* String built-ins used by handleChat, on sequences of characters
\* ---------------------------------------------------------------------
IsSpace(c) == c = " "

RECURSIVE TrimStart(_)
TrimStart(s) ==
  IF s # <<>> /\ IsSpace(s[1]) THEN TrimStart(Tail(s)) ELSE s

RECURSIVE TrimEnd(_)
TrimEnd(s) ==
  IF s # <<>> /\ IsSpace(s[Len(s)]) THEN TrimEnd(Front(s)) ELSE s

\* String.prototype.trim
Trim(s) == TrimEnd(TrimStart(s))

LowerOf(c) == IF c = "P" THEN "p" ELSE IF c = "B" THEN "b" ELSE c

\* String.prototype.toLowerCase
ToLowerCase(s) == [i \in 1..Len(s) |-> LowerOf(s[i])]

\* String.prototype.includes
Includes(s, sub) ==
  \E i \in 1..(Len(s) - Len(sub) + 1) : SubSeq(s, i, i + Len(sub) - 1) = sub

PainWord == <<"p", "a", "i", "n">>
BreathWord == <<"b", "r", "e", "a", "t", "h">>

\* ---------------------------------------------------------------------
\* Rendering
\* ---------------------------------------------------------------------
\* lines 255-257: which screen App returns.  The dashboard's JSX uses
\* LogOut (line 283), which the file does not import; the model takes the
\* name to be bound by the host page, as __firebase_config and __app_id
\* are, so that the dashboard renders and its handlers can run.
Screen(l, u, p) ==
  IF l THEN "loading"
  ELSE IF u = NoUser THEN "auth"
  ELSE IF p = NoProfile THEN "onboarding"
  ELSE "dashboard"

\* OnboardingFlow's local state lives while the component is mounted
ObStepAfter(l, u, p) ==
  IF Screen(l, u, p) = "onboarding" /\ Screen(loading, user, profile) = "onboarding"
  THEN obStep ELSE 1

ObDataAfter(l, u, p) ==
  IF Screen(l, u, p) = "onboarding" /\ Screen(loading, user, profile) = "onboarding"
  THEN obData ELSE InitialData

\* the context of one invocation of runXaiInference by useMemo (line 188)
EngineContext(atMount) ==
  [mount |-> atMount, hasUser |-> user # NoUser,
   hasProfile |-> profile # NoProfile, loading |-> loading]

AppInit ==
  /\ user = NoUser
  /\ profile = NoProfile
  /\ loading = TRUE
  /\ vitals = InitialVitals
  /\ symptoms = InitialSymptoms
  /\ history = <<>>
  /\ chat = InitialChat
  /\ isTyping = FALSE
  /\ xai = runXaiInference(InitialVitals, InitialSymptoms, "simulated")
  /\ obStep = 1
  /\ obData = InitialData
  /\ authReady = FALSE
  /\ profileDocs = [u \in Users |-> NoProfile]
  /\ historyDocs = <<>>
  /\ clock = 1
  /\ subscription = NoUser
  /\ pendingFetch = {}
  /\ pendingFinish = {}
  /\ pendingSaves = {}
  /\ inflight = <<>>
  /\ fetchCount = 0
  /\ chatErrors = 0
  /\ engineCalls =
       {[mount |-> TRUE, hasUser |-> FALSE, hasProfile |-> FALSE, loading |-> TRUE]}
  /\ lastOp = "mount"

Init ==
  /\ AppInit
  /\ call = [vitals |-> InitialVitals, symptoms |-> InitialSymptoms,
             mode |-> "simulated"]
  /\ result = runXaiInference(InitialVitals, InitialSymptoms, "simulated")
  /\ prev = [call |-> call, result |-> result]

\* ---------------------------------------------------------------------
\* Identity: onAuthStateChanged callback (line 191) and the effect on
\* [user] it triggers (lines 195-211)
\* ---------------------------------------------------------------------
AuthStateChanged(u) ==
  /\ user' = u
  /\ loading' = IF u = NoUser THEN FALSE ELSE loading
  /\ subscription' = u
  /\ pendingFetch' = IF u = NoUser THEN pendingFetch ELSE pendingFetch \cup {u}
  /\ obStep' = ObStepAfter(loading', u, profile)
  /\ obData' = ObDataAfter(loading', u, profile)
  /\ lastOp' = "other"
  /\ UNCHANGED <<profile, vitals, symptoms, history, chat, isTyping, xai,
                 profileDocs, historyDocs, clock, pendingFinish, pendingSaves,
                 inflight, fetchCount, chatErrors, engineCalls, engVars>>

\* the listener's first delivery: the persisted session, or none
AuthRestored ==
  /\ ~authReady
  /\ authReady' = TRUE
  /\ \E u \in Users \cup {NoUser} : AuthStateChanged(u)

\* AuthPage.handleAuth (lines 103-109)
handleAuth ==
  /\ authReady
  /\ Screen(loading, user, profile) = "auth"
  /\ UNCHANGED authReady
  /\ \E u \in Users : AuthStateChanged(u)

\* the sign-out button (line 283)
SignOut ==
  /\ Screen(loading, user, profile) = "dashboard"
  /\ UNCHANGED authReady
  /\ AuthStateChanged(NoUser)

\* fetchProfile after its await (lines 198-200), for the uid it captured
fetchProfile(u) ==
  /\ u \in pendingFetch
  /\ pendingFetch' = pendingFetch \ {u}
  /\ profile' = IF profileDocs[u] # NoProfile THEN profileDocs[u] ELSE profile
  /\ loading' = FALSE
  /\ obStep' = ObStepAfter(FALSE, user, profile')
  /\ obData' = ObDataAfter(FALSE, user, profile')
  /\ lastOp' = "other"
  /\ UNCHANGED <<user, vitals, symptoms, history, chat, isTyping, xai,
                 authReady, profileDocs, historyDocs, clock, subscription,
                 pendingFinish, pendingSaves, inflight, fetchCount, chatErrors,
                 engineCalls, engVars>>

\* ---------------------------------------------------------------------
\* OnboardingFlow (lines 131-170)
\* ---------------------------------------------------------------------
\* the input's onChange (line 158)
ObSetData(v) ==
  /\ Screen(loading, user, profile) = "onboarding"
  /\ v \in OnboardingValues[obStep]
  /\ obData' = [obData EXCEPT ![OnboardingKeys[obStep]] = v]
  /\ lastOp' = "other"
  /\ UNCHANGED <<user, profile, loading, vitals, symptoms, history, chat,
                 isTyping, xai, obStep, authReady, profileDocs, historyDocs,
                 clock, subscription, pendingFetch, pendingFinish,
                 pendingSaves, inflight, fetchCount, chatErrors, engineCalls, engVars>>

\* the button while step < 3 (line 162)
ObContinue ==
  /\ Screen(loading, user, profile) = "onboarding"
  /\ obStep < 3
  /\ obStep' = obStep + 1
  /\ lastOp' = "other"
  /\ UNCHANGED <<user, profile, loading, vitals, symptoms, history, chat,
                 isTyping, xai, obData, authReady, profileDocs, historyDocs,
                 clock, subscription, pendingFetch, pendingFinish,
                 pendingSaves, inflight, fetchCount, chatErrors, engineCalls, engVars>>

\* finish() up to its await (lines 135-137)
finish ==
  /\ Screen(loading, user, profile) = "onboarding"
  /\ obStep = 3
  /\ pendingFinish' = pendingFinish \cup {[uid |-> user, data |-> obData]}
  /\ lastOp' = "other"
  /\ UNCHANGED <<user, profile, loading, vitals, symptoms, history, chat,
                 isTyping, xai, obStep, obData, authReady, profileDocs,
                 historyDocs, clock, subscription, pendingFetch, pendingSaves,
                 inflight, fetchCount, chatErrors, engineCalls, engVars>>

\* finish() after setDoc resolved (lines 137-138): onComplete is setProfile
finishDone(r) ==
  /\ r \in pendingFinish
  /\ pendingFinish' = pendingFinish \ {r}
  /\ profileDocs' =
       [profileDocs EXCEPT ![r.uid] =
          [age |-> r.data.age, height |-> r.data.height,
           weight |-> r.data.weight, setupComplete |-> "true"]]
  /\ profile' = [age |-> r.data.age, height |-> r.data.height,
                 weight |-> r.data.weight, setupComplete |-> "undefined"]
  /\ obStep' = ObStepAfter(loading, user, profile')
  /\ obData' = ObDataAfter(loading, user, profile')
  /\ lastOp' = "other"
  /\ UNCHANGED <<user, loading, vitals, symptoms, history, chat, isTyping,
                 xai, authReady, historyDocs, clock, subscription,
                 pendingFetch, pendingSaves, inflight, fetchCount, chatErrors,
                 engineCalls, engVars>>

\* ---------------------------------------------------------------------
\* Dashboard handlers
\* ---------------------------------------------------------------------
\* the slider handler reachable from every screen
SetVitalAnyScreen(f, v) ==
  /\ v \in SliderValues[f]
  /\ v # vitals[f]
  /\ vitals' = [vitals EXCEPT ![f] = v]
  /\ xai' = runXaiInference(vitals', symptoms, "simulated")
  /\ engineCalls' = engineCalls \cup {EngineContext(FALSE)}
  /\ lastOp' = "other"
  /\ UNCHANGED <<user, profile, loading, symptoms, history, chat, isTyping,
                 obStep, obData, authReady, profileDocs, historyDocs, clock,
                 subscription, pendingFetch, pendingFinish, pendingSaves,
                 inflight, fetchCount, chatErrors, engVars>>

\* a VitalSlider's onChange (lines 297-301), then useMemo (line 188)
SetVital(f, v) ==
  /\ Screen(loading, user, profile) = "dashboard"
  /\ v \in SliderValues[f]
  /\ v # vitals[f]
  /\ vitals' = [vitals EXCEPT ![f] = v]
  /\ xai' = runXaiInference(vitals', symptoms, "simulated")
  /\ engineCalls' = engineCalls \cup {EngineContext(FALSE)}
  /\ lastOp' = "other"
  /\ UNCHANGED <<user, profile, loading, symptoms, history, chat, isTyping,
                 obStep, obData, authReady, profileDocs, historyDocs, clock,
                 subscription, pendingFetch, pendingFinish, pendingSaves,
                 inflight, fetchCount, chatErrors, engVars>>

\* a symptom toggle after which useMemo keeps its old value (symptoms
\* missing from its dependency list)
ToggleSymptomStaleMemo(k) ==
  /\ Screen(loading, user, profile) = "dashboard"
  /\ symptoms' = [symptoms EXCEPT ![k] = ~symptoms[k]]
  /\ lastOp' = "other"
  /\ UNCHANGED <<user, profile, loading, vitals, history, chat, isTyping, xai,
                 obStep, obData, authReady, profileDocs, historyDocs, clock,
                 subscription, pendingFetch, pendingFinish, pendingSaves,
                 inflight, fetchCount, chatErrors, engineCalls, engVars>>

\* a SymptomBtn's onClick (lines 307-308), then useMemo (line 188)
ToggleSymptom(k) ==
  /\ Screen(loading, user, profile) = "dashboard"
  /\ symptoms' = [symptoms EXCEPT ![k] = ~symptoms[k]]
  /\ xai' = runXaiInference(vitals, symptoms', "simulated")
  /\ engineCalls' = engineCalls \cup {EngineContext(FALSE)}
  /\ lastOp' = "other"
  /\ UNCHANGED <<user, profile, loading, vitals, history, chat, isTyping,
                 obStep, obData, authReady, profileDocs, historyDocs, clock,
                 subscription, pendingFetch, pendingFinish, pendingSaves,
                 inflight, fetchCount, chatErrors, engVars>>

\* saveAssessment up to its await (lines 213-217); the written document is
\* in the local store at once, its server timestamp still absent
saveAssessment ==
  /\ Screen(loading, user, profile) = "dashboard"
  /\ user # NoUser
  /\ Len(historyDocs) < MaxDocs
  /\ historyDocs' =
       Append(historyDocs,
              [id |-> Len(historyDocs) + 1, userId |-> user,
               timestamp |-> NoTimestamp, risk |-> xai.probability,
               vitals |-> vitals, symptoms |-> symptoms])
  /\ pendingSaves' = pendingSaves \cup {Len(historyDocs) + 1}
  /\ lastOp' = "save"
  /\ UNCHANGED <<user, profile, loading, vitals, symptoms, history, chat,
                 isTyping, xai, obStep, obData, authReady, profileDocs, clock,
                 subscription, pendingFetch, pendingFinish, inflight,
                 fetchCount, chatErrors, engineCalls, engVars>>

\* saveAssessment after addDoc resolved (line 218); the server has set the
\* document's timestamp
saveAssessmentDone(id, t) ==
  /\ id \in pendingSaves
  /\ t \in {clock, clock + 1}
  /\ pendingSaves' = pendingSaves \ {id}
  /\ historyDocs' = [historyDocs EXCEPT ![id].timestamp = t]
  /\ clock' = t
  /\ chat' = Append(chat, [role |-> "ai", text |-> AuditText])
  /\ lastOp' = "other"
  /\ UNCHANGED <<user, profile, loading, vitals, symptoms, history, isTyping,
                 xai, obStep, obData, authReady, profileDocs, subscription,
                 pendingFetch, pendingFinish, inflight, fetchCount, chatErrors,
                 engineCalls, engVars>>

\* handleChat up to its first await (lines 221-247)
handleChat(input) ==
  /\ Screen(loading, user, profile) = "dashboard"
  /\ fetchCount < MaxChats
  /\ Trim(input) # <<>>
  /\ chat' = Append(chat, [role |-> "user", text |-> input])
  /\ isTyping' = TRUE
  /\ LET lower == ToLowerCase(input)
         s1 == IF Includes(lower, PainWord)
               THEN [symptoms EXCEPT !.pain = TRUE] ELSE symptoms
         s2 == IF Includes(lower, BreathWord)
               THEN [s1 EXCEPT !.breathless = TRUE] ELSE s1
         set == Includes(lower, PainWord) \/ Includes(lower, BreathWord)
     IN /\ symptoms' = s2
        /\ xai' = IF set THEN runXaiInference(vitals, s2, "simulated") ELSE xai
        /\ engineCalls' =
             IF set THEN engineCalls \cup {EngineContext(FALSE)} ELSE engineCalls
  /\ inflight' = Append(inflight, [input |-> input, userIdx |-> Len(chat) + 1])
  /\ fetchCount' = fetchCount + 1
  /\ lastOp' = "other"
  /\ UNCHANGED <<user, profile, loading, vitals, history, obStep, obData,
                 authReady, profileDocs, historyDocs, clock, subscription,
                 pendingFetch, pendingFinish, pendingSaves, chatErrors, engVars>>

RemoveAt(s, i) == SubSeq(s, 1, i - 1) \o SubSeq(s, i + 1, Len(s))

\* a catch block that asks the service again before giving up
handleChatCatchRetry(i) ==
  /\ i \in 1..Len(inflight)
  /\ fetchCount' = fetchCount + 1
  /\ inflight' = RemoveAt(inflight, i)
  /\ chat' = Append(chat, [role |-> "ai", text |-> FallbackText])
  /\ isTyping' = FALSE
  /\ lastOp' = "chatFailed"
  /\ UNCHANGED <<user, profile, loading, vitals, symptoms, history, xai,
                 obStep, obData, authReady, profileDocs, historyDocs, clock,
                 subscription, pendingFetch, pendingFinish, pendingSaves,
                 chatErrors, engineCalls, engVars>>

\* handleChat's catch and finally (lines 250-252): fetch rejected, or
\* response.json() rejected, or the parsed result could not be read
handleChatCatch(i) ==
  /\ i \in 1..Len(inflight)
  /\ inflight' = RemoveAt(inflight, i)
  /\ chat' = Append(chat, [role |-> "ai", text |-> FallbackText])
  /\ isTyping' = FALSE
  /\ lastOp' = "chatFailed"
  /\ UNCHANGED <<user, profile, loading, vitals, symptoms, history, xai,
                 obStep, obData, authReady, profileDocs, historyDocs, clock,
                 subscription, pendingFetch, pendingFinish, pendingSaves,
                 fetchCount, chatErrors, engineCalls, engVars>>

\* handleChat after both awaits succeeded (lines 248-249, 252)
handleChatReply(i, t) ==
  /\ i \in 1..Len(inflight)
  /\ t \in ReplyTexts
  /\ inflight' = RemoveAt(inflight, i)
  /\ chat' = Append(chat, [role |-> "ai",
                           text |-> IF t = "" THEN DefaultReplyText ELSE <<t>>])
  /\ isTyping' = FALSE
  /\ lastOp' = "other"
  /\ UNCHANGED <<user, profile, loading, vitals, symptoms, history, xai,
                 obStep, obData, authReady, profileDocs, historyDocs, clock,
                 subscription, pendingFetch, pendingFinish, pendingSaves,
                 fetchCount, chatErrors, engineCalls, engVars>>

\* ---------------------------------------------------------------------
\* History subscription (lines 204-210)
\* ---------------------------------------------------------------------
TsSeconds(d) == IF d.timestamp = NoTimestamp THEN 0 ELSE d.timestamp

Orderings(n) == {p \in [1..n -> 1..n] : \A i, j \in 1..n : p[i] = p[j] => i = j}

KeyedByTime(s) == [i \in 1..Len(s) |-> [key |-> TsSeconds(s[i]), item |-> s[i]]]

FilterNone(s, uid) == s

\* .filter(d => d.userId === user.uid)
FilterOwn(s, uid) == SelectSeq(s, LAMBDA d : d.userId = uid)

\* .sort((a, b) => (b.timestamp?.seconds || 0) - (a.timestamp?.seconds || 0))
historySort(s) == Unkeyed(SortKeyedDesc(KeyedByTime(s)))

\* the onSnapshot callback, for the documents in the order p the store
\* hands them over
onSnapshot(p) ==
  /\ subscription # NoUser
  /\ p \in Orderings(Len(historyDocs))
  /\ LET docs == [i \in 1..Len(historyDocs) |-> historyDocs[p[i]]]
     IN history' = historySort(FilterOwn(docs, subscription))
  /\ lastOp' = "onSnapshot"
  /\ UNCHANGED <<user, profile, loading, vitals, symptoms, chat, isTyping,
                 xai, obStep, obData, authReady, profileDocs, historyDocs,
                 clock, subscription, pendingFetch, pendingFinish,
                 pendingSaves, inflight, fetchCount, chatErrors, engineCalls,
                 engVars>>

\* ---------------------------------------------------------------------
\* Engine harness: runXaiInference called on its own, twice: a first call
\* on any arguments of the domain, then a second call with one argument
\* changed (or none), the first call kept for comparison
\* ---------------------------------------------------------------------
CallDomain ==
  [vitals : VitalsDomain \cup {InitialVitals}, symptoms : SymptomsDomain,
   mode : Modes]

Invoke(v, s, m) ==
  /\ prev.call = call
  /\ call' = [vitals |-> v, symptoms |-> s, mode |-> m]
  /\ result' = runXaiInference(v, s, m)
  /\ prev' = [call |-> call, result |-> result]
  /\ UNCHANGED appVars

VitalValues ==
  [heartRate |-> HeartRates, bloodPressure |-> BloodPressures,
   oxygen |-> Oxygens, temperature |-> Temperatures,
   infectionMarker |-> InfectionMarkers]

InvokeVital ==
  \E f \in DOMAIN VitalValues : \E x \in VitalValues[f] :
    Invoke([call.vitals EXCEPT ![f] = x], call.symptoms, call.mode)

InvokeSymptom ==
  \E k \in DOMAIN call.symptoms :
    Invoke(call.vitals, [call.symptoms EXCEPT ![k] = ~call.symptoms[k]],
           call.mode)

InvokeMode ==
  \E m \in Modes : m # call.mode /\ Invoke(call.vitals, call.symptoms, m)

EngineInit ==
  /\ AppInit
  /\ \E c \in CallDomain :
       /\ call = c
       /\ result = runXaiInference(c.vitals, c.symptoms, c.mode)
       /\ prev = [call |-> c, result |-> result]

EngineNext == InvokeVital \/ InvokeSymptom \/ InvokeMode

EngineSpec == EngineInit /\ [][EngineNext]_vars

\* ---------------------------------------------------------------------
\* The application
\* ---------------------------------------------------------------------
Identity ==
  \/ AuthRestored
  \/ handleAuth
  \/ SignOut
  \/ \E u \in Users : fetchProfile(u)

Onboarding ==
  \/ \E v \in UNION {OnboardingValues[i] : i \in 1..3} : ObSetData(v)
  \/ ObContinue
  \/ finish
  \/ \E r \in pendingFinish : finishDone(r)

Sliders ==
  \E f \in DOMAIN SliderValues : \E v \in SliderValues[f] : SetVital(f, v)

Inputs ==
  \/ Sliders
  \/ \E k \in {"pain", "breathless"} : ToggleSymptom(k)

Audit ==
  \/ saveAssessment
  \/ \E id \in pendingSaves, t \in {clock, clock + 1} : saveAssessmentDone(id, t)
  \/ \E p \in Orderings(Len(historyDocs)) : onSnapshot(p)

Chat ==
  \/ \E input \in ChatInputs : handleChat(input)
  \/ \E i \in 1..Len(inflight) : handleChatCatch(i)
  \/ \E i \in 1..Len(inflight), t \in ReplyTexts : handleChatReply(i, t)

\* every handler together; the two specifications after it each leave one
\* part of the dashboard alone, which keeps their state spaces checkable
Next == Identity \/ Onboarding \/ Inputs \/ Audit \/ Chat

Spec == Init /\ [][Next]_vars

\* the application with the audit log left alone
ChatNext == Identity \/ Onboarding \/ Sliders \/ Chat

ChatSpec == Init /\ [][ChatNext]_vars

\* the application with the chat console left alone
AuditNext == Identity \/ Onboarding \/ Audit

AuditSpec == Init /\ [][AuditNext]_vars

\* sign-in, profile fetch, onboarding and sign-out alone
SessionNext == Identity \/ Onboarding

SessionSpec == Init /\ [][SessionNext]_vars

\* one session of the application, from the first auth state to the
\* dashboard, with the default onboarding data, the history listener
\* silent and chat requests and writes left unanswered: slider moves,
\* symptom toggles, chat inputs and saves in any order
AssessNext ==
  \/ AuthRestored
  \/ handleAuth
  \/ \E u \in Users : fetchProfile(u)
  \/ ObContinue
  \/ finish
  \/ \E r \in pendingFinish : finishDone(r)
  \/ Inputs
  \/ \E input \in ChatInputs : handleChat(input)
  \/ saveAssessment

AssessSpec == Init /\ [][AssessNext]_vars

\* =====================================================================
\* Properties of runXaiInference (checked under EngineSpec)
\* =====================================================================
Phis(terms) == [i \in 1..Len(terms) |-> terms[i].phi]

TermsOf(res, feature) ==
  SelectSeq(res.shapValues, LAMBDA t : t.feature = feature)

PhisOf(res, feature) == Phis(TermsOf(res, feature))

\* C1: each of the four vital terms of the returned list carries the phi of
\* the scoring table, the threshold values 100, 90, 94 and 3 falling on the
\* constant side.
C1_VitalTermsFollowTable ==
  LET v == call.vitals IN
  /\ PhisOf(result, "Heart Rate") =
       <<IF v.heartRate > 100 THEN (v.heartRate - 100) * 9 ELSE -40>>
  /\ PhisOf(result, "Blood Pressure") =
       <<IF v.bloodPressure < 90 THEN (90 - v.bloodPressure) * 15 ELSE -20>>
  /\ PhisOf(result, "SpO2 Saturation") =
       <<IF v.oxygen < 94 THEN (94 - v.oxygen) * 50 ELSE -90>>
  /\ PhisOf(result, "Infection Marker") =
       <<IF v.infectionMarker > 3 THEN (v.infectionMarker - 3) * 80 ELSE -30>>

C1_Witness ==
  /\ call.vitals.heartRate = 100
  /\ call.vitals.bloodPressure = 90
  /\ call.vitals.oxygen = 94
  /\ call.vitals.infectionMarker = 3
  /\ PhisOf(result, "Heart Rate") = <<-40>>
  /\ PhisOf(prev.result, "Heart Rate") = <<9>>

\* C2: the returned probability is the sigmoid of baseValue (0.18) plus the
\* sum of the phi of the terms that are in the returned list.
C2_ProbabilityIsSigmoidOfReturnedTerms ==
  /\ result.baseValue = 180
  /\ result.probability =
       Sigmoid(result.baseValue + SumSeq(Phis(result.shapValues)))

C2_Witness ==
  /\ prev.call # call
  /\ call.symptoms.pain
  /\ call.symptoms.breathless
  /\ call.vitals.heartRate > 100
  /\ call.vitals.oxygen < 94
  /\ result.probability > Scale \div 2
  /\ result.probability < Scale

\* C3: the returned list has exactly one term for each vital, a Pain Index
\* term (0.14) exactly when symptoms.pain, a Resp. Distress term (0.25)
\* exactly when symptoms.breathless, and nothing else: length 4, 5 or 6.
C3_TermsPresent ==
  LET flags == (IF call.symptoms.pain THEN 1 ELSE 0)
                 + (IF call.symptoms.breathless THEN 1 ELSE 0)
  IN
  /\ \A f \in {"Heart Rate", "Blood Pressure", "SpO2 Saturation",
               "Infection Marker"} : Len(TermsOf(result, f)) = 1
  /\ PhisOf(result, "Pain Index") = (IF call.symptoms.pain THEN <<140>> ELSE <<>>)
  /\ PhisOf(result, "Resp. Distress") =
       (IF call.symptoms.breathless THEN <<250>> ELSE <<>>)
  /\ Len(result.shapValues) = 4 + flags

C3_Witness ==
  /\ call.symptoms.pain
  /\ ~call.symptoms.breathless
  /\ Len(result.shapValues) = 5
  /\ Len(prev.result.shapValues) = 6

\* position of a feature in the order the terms are pushed
InsertionRank(feature) ==
  CASE feature = "Heart Rate" -> 1
    [] feature = "Blood Pressure" -> 2
    [] feature = "SpO2 Saturation" -> 3
    [] feature = "Infection Marker" -> 4
    [] feature = "Pain Index" -> 5
    [] feature = "Resp. Distress" -> 6

\* C4: the returned list is ordered by non-increasing |phi|, and terms of
\* equal |phi| keep their insertion order.
C4_SortedAndStable ==
  \A i, j \in 1..Len(result.shapValues) :
    i < j =>
      LET a == result.shapValues[i]
          b == result.shapValues[j]
      IN /\ Abs(a.phi) >= Abs(b.phi)
         /\ Abs(a.phi) = Abs(b.phi) =>
              InsertionRank(a.feature) < InsertionRank(b.feature)

\* heartRate 105 and bloodPressure 87 tie at 0.045, oxygen 89 and the
\* breathless flag tie at 0.25
C4_Witness ==
  /\ prev.call # call
  /\ call.vitals.heartRate = 105
  /\ call.vitals.bloodPressure = 87
  /\ call.vitals.oxygen = 89
  /\ call.symptoms.breathless
  /\ \E i \in 1..(Len(result.shapValues) - 1) :
       /\ result.shapValues[i] = shapTerm("Heart Rate", 45)
       /\ result.shapValues[i + 1] = shapTerm("Blood Pressure", 45)
  /\ result.shapValues[1] = shapTerm("SpO2 Saturation", 250)
  /\ result.shapValues[2] = shapTerm("Resp. Distress", 250)

\* C5: limeSensitivity is 0.009 when heartRate > 100 and 0.002 otherwise, and
\* two calls with the same heartRate get the same limeSensitivity.
C5_LimeDependsOnHeartRateOnly ==
  /\ result.limeSensitivity = (IF call.vitals.heartRate > 100 THEN 9 ELSE 2)
  /\ prev.call.vitals.heartRate = call.vitals.heartRate =>
       prev.result.limeSensitivity = result.limeSensitivity

C5_Witness ==
  /\ call.vitals.heartRate = 100
  /\ prev.call.vitals.heartRate = 100
  /\ prev.call.vitals.bloodPressure >= 90
  /\ call.vitals.bloodPressure < 90
  /\ result.limeSensitivity = 2

SameSix(a, b) ==
  /\ a.vitals.heartRate = b.vitals.heartRate
  /\ a.vitals.bloodPressure = b.vitals.bloodPressure
  /\ a.vitals.oxygen = b.vitals.oxygen
  /\ a.vitals.infectionMarker = b.vitals.infectionMarker
  /\ a.symptoms.pain = b.symptoms.pain
  /\ a.symptoms.breathless = b.symptoms.breathless

\* C6: two calls that agree on heartRate, bloodPressure, oxygen,
\* infectionMarker, pain and breathless return equal results, whatever the
\* temperature and the mode argument are.
C6_ResultDependsOnSixInputs ==
  SameSix(call, prev.call) => result = prev.result

C6_Witness ==
  /\ SameSix(call, prev.call)
  /\ call.mode # prev.call.mode
  /\ call.symptoms.pain
  /\ result = prev.result

AllNormal(v) ==
  /\ v.heartRate <= 100
  /\ v.bloodPressure >= 90
  /\ v.oxygen >= 94
  /\ v.infectionMarker <= 3

\* C7: for the application's initial vitals and no symptom the four terms
\* are -0.04, -0.02, -0.09 and -0.03, their sum cancels baseValue and the
\* probability is exactly 0.5; whenever all four vitals are on the
\* non-alarm side and no flag is set, the terms and baseValue sum to 0.
C7_NormalVitalsCancelBase ==
  LET none == ~call.symptoms.pain /\ ~call.symptoms.breathless IN
  /\ (call.vitals = InitialVitals /\ none) =>
       /\ PhisOf(result, "Heart Rate") = <<-40>>
       /\ PhisOf(result, "Blood Pressure") = <<-20>>
       /\ PhisOf(result, "SpO2 Saturation") = <<-90>>
       /\ PhisOf(result, "Infection Marker") = <<-30>>
       /\ 2 * result.probability = Scale
  /\ (AllNormal(call.vitals) /\ none) =>
       /\ SumSeq(Phis(result.shapValues)) + result.baseValue = 0
       /\ 2 * result.probability = Scale

C7_Witness ==
  /\ prev.call # call
  /\ call.vitals = InitialVitals
  /\ call.symptoms = InitialSymptoms
  /\ 2 * result.probability = Scale
  /\ SumSeq(Phis(result.shapValues)) = -180

\* =====================================================================
\* Properties of the application
\* =====================================================================
UserMessages(c) == Cardinality({i \in 1..Len(c) : c[i].role = "user"})

\* C8 (ChatSpec): every accepted chat input makes one fetch and no more; a
\* failed request appends exactly the fallback AI message, after the user's
\* message of that request, lets no error escape and leaves user, profile,
\* vitals and history as they were.
C8_ChatFailureFallsBack ==
  [][/\ fetchCount' = UserMessages(chat')
     /\ lastOp' = "chatFailed" =>
          /\ chat' = Append(chat, [role |-> "ai", text |-> FallbackText])
          /\ \E i \in 1..Len(inflight) :
               /\ inflight' = RemoveAt(inflight, i)
               /\ inflight[i].userIdx <= Len(chat)
               /\ chat[inflight[i].userIdx] =
                    [role |-> "user", text |-> inflight[i].input]
               /\ Trim(inflight[i].input) # <<>>
          /\ fetchCount' = fetchCount
          /\ chatErrors' = 0
          /\ UNCHANGED <<user, profile, vitals, history>>]_vars

C8_Witness ==
  /\ lastOp = "chatFailed"
  /\ fetchCount = 2
  /\ Len(inflight) = 1
  /\ chat[Len(chat)] = [role |-> "ai", text |-> FallbackText]
  /\ chat[Len(chat) - 1].role = "user"

\* C9 as stated (ChatSpec): runXaiInference is never invoked while user or
\* profile is null.
C9_NoCallBeforeProfile ==
  \A c \in engineCalls : c.hasUser /\ c.hasProfile

\* C9 as amended: App invokes runXaiInference once when it mounts (useMemo
\* runs before the early returns), with loading true and user and profile
\* null; every later invocation happens with loading false and user and
\* profile present.
C9_OnlyMountCallBeforeProfile ==
  \A c \in engineCalls :
    IF c.mount
    THEN c.loading /\ ~c.hasUser /\ ~c.hasProfile
    ELSE ~c.loading /\ c.hasUser /\ c.hasProfile

C9_Witness ==
  /\ \E c \in engineCalls : ~c.mount
  /\ \E c \in engineCalls : c.mount
  /\ vitals # InitialVitals
  /\ symptoms.pain

\* C10 (AuditSpec): right after a snapshot delivery, history holds exactly
\* the store's documents whose userId is the signed-in user's uid, each
\* once, ordered by non-increasing timestamp seconds (absent counts as 0).
C10_HistoryIsOwnDocsByTime ==
  lastOp = "onSnapshot" =>
    /\ \A i \in 1..Len(history) :
         /\ history[i].userId = user
         /\ \E k \in 1..Len(historyDocs) : historyDocs[k] = history[i]
    /\ \A k \in 1..Len(historyDocs) :
         historyDocs[k].userId = user =>
           Cardinality({i \in 1..Len(history) : history[i] = historyDocs[k]}) = 1
    /\ \A i, j \in 1..Len(history) :
         i < j => TsSeconds(history[i]) >= TsSeconds(history[j])

C10_Witness ==
  /\ lastOp = "onSnapshot"
  /\ Len(history) = 2
  /\ history[1].id = 1
  /\ history[1].timestamp > 0
  /\ history[2].timestamp = NoTimestamp

\* a delivery that leaves another user's document out of history
C10_FilterReached ==
  /\ lastOp = "onSnapshot"
  /\ Len(history) = 1
  /\ Len(historyDocs) = 2
  /\ history[1].id = 2

\* C11 (AssessSpec): a step appends nothing to the audit log while no
\* user is signed in; a step that changes the log appends exactly one entry
\* and leaves the earlier ones as they were; the new entry's userId is the
\* signed-in user's uid; and after such a step every stored entry's risk is
\* the engine's probability for the vitals and symptoms of that entry.
C11_EntriesCarryTheirOwnRisk ==
  [][/\ user = NoUser => historyDocs' = historyDocs
     /\ historyDocs' # historyDocs =>
          /\ Len(historyDocs') = Len(historyDocs) + 1
          /\ SubSeq(historyDocs', 1, Len(historyDocs)) = historyDocs
          /\ historyDocs'[Len(historyDocs')].userId = user
          /\ user \in Users
          /\ \A k \in 1..Len(historyDocs') :
               historyDocs'[k].risk =
                 runXaiInference(historyDocs'[k].vitals,
                                 historyDocs'[k].symptoms,
                                 "simulated").probability]_vars

C11_Witness ==
  /\ Len(historyDocs) = 2
  /\ historyDocs[1].userId = user
  /\ historyDocs[1].vitals = InitialVitals
  /\ historyDocs[1].symptoms = [pain |-> FALSE, breathless |-> TRUE]
  /\ historyDocs[2].vitals.heartRate > 100
  /\ historyDocs[2].symptoms = [pain |-> TRUE, breathless |-> TRUE]
  /\ historyDocs[1].risk < historyDocs[2].risk
  /\ fetchCount = 1

SameProfileData(p, q) ==
  /\ p.age = q.age
  /\ p.height = q.height
  /\ p.weight = q.weight

\* C12 (SessionSpec): whenever the dashboard is displayed, the signed-in
\* user has a stored profile and the profile held in state is that one, so
\* no profile of one user is in use while another user is signed in and a
\* user without a stored profile is not past onboarding.
C12_DashboardProfileIsOwn ==
  Screen(loading, user, profile) = "dashboard" =>
    /\ profileDocs[user] # NoProfile
    /\ SameProfileData(profile, profileDocs[user])

\* C13 (ChatSpec): the typing indicator is on exactly while at least one
\* text-generation request is in flight.
C13_TypingTracksInflight ==
  isTyping = (Len(inflight) > 0)

====
